---- MODULE Spec2Model ----
(***************************************************************************)
(* Admin dashboard component: the three server-driven UI spec builders of  *)
(* app/ui_specs.py and the request handlers of app/main.py, which call one *)
(* upstream user-directory service per request.                            *)
(*                                                                         *)
(* JSON values are tagged records, because Python decides on the dynamic   *)
(* type of what the upstream sent:                                         *)
(*   [j |-> "null"], [j |-> "bool", b |-> ..], [j |-> "str", s |-> ..],    *)
(*   [j |-> "dict", d |-> record], [j |-> "list", items |-> sequence],     *)
(*   [j |-> "undecodable"] (a body on which response.json() raises).       *)
(* TLA+ strings are ASCII: the non-ASCII literals of the source are        *)
(* written as "<U+....>".                                                  *)
(***************************************************************************)
EXTENDS Integers, Sequences, FiniteSets, TLC

\* one request at a time: where the handler is, the request, its upstream
\* call and the call's outcome, the response, the calls made for the request
VARIABLES pc, req, call, up, resp, calls
\* requests handled concurrently: slots[i] is the request of the i-th task of
\* the event loop; config is the module-level state the tasks share
VARIABLES slots, config

vars == <<pc, req, call, up, resp, calls, slots, config>>

----------------------------------------------------------------------------
(* Bounds of the model *)

\* longest user list the upstream returns
MaxUsers == 6
\* largest total_users a direct call of get_dashboard_spec is given
MaxTotal == 10
\* requests the event loop handles at the same time
NSlots == 2

----------------------------------------------------------------------------
(* JSON values and the Python operations the code applies to them *)

JNull == [j |-> "null"]
JBool(b) == [j |-> "bool", b |-> b]
JStr(s) == [j |-> "str", s |-> s]
JDict(d) == [j |-> "dict", d |-> d]
JList(items) == [j |-> "list", items |-> items]
Undecodable == [j |-> "undecodable"]

EmDash == "<U+2014>"

\* bool(v)
Truthy(v) ==
    CASE v.j = "null" -> FALSE
      [] v.j = "bool" -> v.b
      [] v.j = "str" -> v.s # ""
      [] v.j = "dict" -> DOMAIN v.d # {}
      [] v.j = "list" -> v.items # <<>>
      [] OTHER -> FALSE

\* v has a .get method
HasGet(v) == v.j = "dict"

\* v.get(key, default), for a dict v
Get(v, key, default) == IF key \in DOMAIN v.d THEN v.d[key] ELSE default

\* str(v), as an f-string formats v
PyStr(v) ==
    CASE v.j = "null" -> "None"
      [] v.j = "bool" -> IF v.b THEN "True" ELSE "False"
      [] v.j = "str" -> v.s
      [] OTHER -> "<repr>"

\* sub in s
Contains(s, sub) ==
    \E i \in 1..(Len(s) - Len(sub) + 1) : SubSeq(s, i, i + Len(sub) - 1) = sub

\* int(num / den) in the place of round(num / den)
PyRoundTruncates(num, den) == num \div den

\* round(num / den), for the code's round(verified_users / total_users * 100):
\* the integer nearest to num/den, a tie going to the even one.  The double
\* the code rounds equals the exact quotient closely enough to round the same
\* way for every total_users below 40 (23/40*100 is 57.49999999999999).
PyRound(num, den) ==
    LET q == num \div den
        r == num % den
    IN  IF 2 * r < den THEN q
        ELSE IF 2 * r > den THEN q + 1
        ELSE IF q % 2 = 0 THEN q ELSE q + 1

----------------------------------------------------------------------------
(* app/ui_specs.py: the three builders *)

\* the StatsGrid of the dashboard page
StatsGrid(total_users, verified_users) ==
    [type |-> "StatsGrid",
     columns |-> 4,
     items |-> <<
        [label |-> "Total Users", value |-> total_users, icon |-> "<U+1F465>",
         onClick |-> [type |-> "navigate", to |-> "/admin/users"]],
        [label |-> "Verified", value |-> verified_users, icon |-> "<U+2713>",
         change |-> IF total_users > 0
                    THEN PyRound(verified_users * 100, total_users)
                    ELSE 0,
         changeType |-> "neutral"],
        [label |-> "Unverified", value |-> total_users - verified_users,
         icon |-> "<U+23F3>"],
        [label |-> "Active Today", value |-> EmDash, icon |-> "<U+1F4CA>"] >>]

\* the "Add User" page action of the dashboard page
DashboardAddUser ==
    [type |-> "Button", label |-> "Add User", variant |-> "primary", icon |-> "+",
     onClick |->
        [type |-> "openModal",
         modal |->
            [type |-> "Modal", title |-> "Add New User", size |-> "md",
             children |-> <<
                [type |-> "Form", endpoint |-> "/api/users", method |-> "POST",
                 submitText |-> "Create User", cancelText |-> "Cancel",
                 fields |-> <<
                    [type |-> "TextField", name |-> "email", label |-> "Email",
                     inputType |-> "email", required |-> TRUE,
                     placeholder |-> "user@example.com"],
                    [type |-> "TextField", name |-> "password",
                     label |-> "Password", inputType |-> "password",
                     required |-> TRUE],
                    [type |-> "Checkbox", name |-> "email_verified",
                     label |-> "Email Verified",
                     checkboxLabel |-> "Mark email as verified"] >>,
                 onSuccess |-> [type |-> "refresh"]] >>]]]

\* the Recent Users card of the dashboard page
RecentUsersCard ==
    [type |-> "Card", title |-> "Recent Users",
     subtitle |-> "Latest registered users", className |-> "mt-6",
     children |-> <<
        [type |-> "DataTable", endpoint |-> "/api/users", pagination |-> FALSE,
         searchable |-> FALSE,
         columns |-> <<
            [key |-> "email", label |-> "Email"],
            [key |-> "email_verified", label |-> "Verified", type |-> "boolean"],
            [key |-> "created_at", label |-> "Created", type |-> "datetime"] >>,
         rowActions |-> <<
            [type |-> "Button", label |-> "View", variant |-> "ghost",
             size |-> "sm",
             onClick |-> [type |-> "navigate", to |-> "/admin/users/{email}"]] >>,
         emptyMessage |-> "No users yet"] >>,
     footer |-> <<
        [type |-> "Link", label |-> "View all users <U+2192>",
         href |-> "/admin/users"] >>]

\* the onClick of the Export Users button
ExportActionDownload ==
    [type |-> "download", endpoint |-> "/api/users/export"]
ExportAction ==
    [type |-> "api", method |-> "GET", endpoint |-> "/api/users/export"]

\* the Quick Actions card of the dashboard page
QuickActionsCard ==
    [type |-> "Card", title |-> "Quick Actions", className |-> "mt-6",
     children |-> <<
        [type |-> "Row", gap |-> 12,
         children |-> <<
            [type |-> "Button", label |-> "Export Users", variant |-> "outline",
             onClick |-> ExportAction],
            [type |-> "Button", label |-> "Invite Users", variant |-> "outline",
             onClick |->
                [type |-> "openModal",
                 modal |->
                    [type |-> "Modal", title |-> "Invite Users",
                     children |-> <<
                        [type |-> "Text",
                         content |-> "Bulk invite functionality coming soon.",
                         variant |-> "muted"] >>]]],
            [type |-> "Button", label |-> "View Logs", variant |-> "outline",
             onClick |-> [type |-> "navigate", to |-> "/admin/logs"]] >>] >>]

\* recent_users is a parameter the builder never reads
get_dashboard_spec(total_users, verified_users, recent_users) ==
    [type |-> "Page",
     title |-> "Admin Dashboard",
     description |-> "Overview of your application",
     actions |-> << DashboardAddUser >>,
     children |-> << StatsGrid(total_users, verified_users),
                     RecentUsersCard,
                     QuickActionsCard >>]

\* the "Add User" page action of the users list page
UsersListAddUser ==
    [type |-> "Button", label |-> "Add User", variant |-> "primary", icon |-> "+",
     onClick |->
        [type |-> "openModal",
         modal |->
            [type |-> "Modal", title |-> "Add New User", size |-> "md",
             children |-> <<
                [type |-> "Form", endpoint |-> "/api/users", method |-> "POST",
                 submitText |-> "Create User", cancelText |-> "Cancel",
                 fields |-> <<
                    [type |-> "TextField", name |-> "email", label |-> "Email",
                     inputType |-> "email", required |-> TRUE],
                    [type |-> "TextField", name |-> "password",
                     label |-> "Password", inputType |-> "password",
                     required |-> TRUE],
                    [type |-> "Checkbox", name |-> "email_verified",
                     checkboxLabel |-> "Mark email as verified"] >>,
                 onSuccess |-> [type |-> "refresh"]] >>]]]

\* the row actions of the users list page's DataTable
UsersRowActionsNoConfirm ==
    << [type |-> "Button", label |-> "Edit", variant |-> "ghost", size |-> "sm",
        onClick |-> [type |-> "navigate", to |-> "/admin/users/{email}"]],
       [type |-> "Button", label |-> "Delete", variant |-> "danger",
        size |-> "sm",
        onClick |->
            [type |-> "api", method |-> "DELETE",
             endpoint |-> "/api/users/{email}",
             onSuccess |-> [type |-> "refresh"]]] >>
UsersRowActions ==
    << [type |-> "Button", label |-> "Edit", variant |-> "ghost", size |-> "sm",
        onClick |-> [type |-> "navigate", to |-> "/admin/users/{email}"]],
       [type |-> "Button", label |-> "Delete", variant |-> "danger",
        size |-> "sm",
        onClick |->
            [type |-> "api", method |-> "DELETE",
             endpoint |-> "/api/users/{email}",
             confirm |-> "Are you sure you want to delete this user?",
             onSuccess |-> [type |-> "refresh"]]] >>

\* the DataTable of the users list page
UsersDataTable ==
    [type |-> "DataTable",
     endpoint |-> "/api/users",
     pagination |-> TRUE,
     pageSize |-> 20,
     searchable |-> TRUE,
     sortable |-> TRUE,
     columns |-> <<
        [key |-> "email", label |-> "Email", sortable |-> TRUE],
        [key |-> "email_verified", label |-> "Verified", type |-> "boolean",
         sortable |-> TRUE],
        [key |-> "two_factor_enabled", label |-> "2FA", type |-> "boolean"],
        [key |-> "created_at", label |-> "Created", type |-> "datetime",
         sortable |-> TRUE],
        [key |-> "updated_at", label |-> "Updated", type |-> "datetime"] >>,
     rowActions |-> UsersRowActions,
     emptyMessage |-> "No users found"]

get_users_list_spec ==
    [type |-> "Page",
     title |-> "Users",
     description |-> "Manage user accounts",
     actions |-> << UsersListAddUser >>,
     children |-> << [type |-> "Card", children |-> << UsersDataTable >>] >>]

\* the initialValues of the user edit page's Form
InitialValuesSameKey(user) ==
    [email_verified |-> Get(user, "email_verified", JBool(FALSE)),
     two_factor_enabled |-> Get(user, "email_verified", JBool(FALSE))]
InitialValues(user) ==
    [email_verified |-> Get(user, "email_verified", JBool(FALSE)),
     two_factor_enabled |-> Get(user, "two_factor_enabled", JBool(FALSE))]

\* the Form of the user edit page; user is a dict
UserEditForm(user) ==
    [type |-> "Form",
     endpoint |-> "/api/users/" \o PyStr(Get(user, "email", JStr(""))),
     method |-> "PUT",
     submitText |-> "Save Changes",
     initialValues |-> InitialValues(user),
     fields |-> <<
        [type |-> "TextField", name |-> "email", label |-> "Email",
         inputType |-> "email", readOnly |-> TRUE,
         placeholder |-> Get(user, "email", JStr(""))],
        [type |-> "Checkbox", name |-> "email_verified",
         label |-> "Email Status", checkboxLabel |-> "Email verified"],
        [type |-> "Checkbox", name |-> "two_factor_enabled",
         label |-> "Two-Factor Auth", checkboxLabel |-> "2FA enabled"] >>,
     onSuccess |-> [type |-> "navigate", to |-> "/admin/users"]]

\* the Metadata card of the user edit page
MetadataCard(user) ==
    [type |-> "Card", title |-> "Metadata", className |-> "mt-6",
     children |-> <<
        [type |-> "Row", gap |-> 24,
         children |-> <<
            [type |-> "Column",
             children |-> <<
                [type |-> "Text", content |-> JStr("Created"),
                 variant |-> "small"],
                [type |-> "Text",
                 content |-> Get(user, "created_at", JStr(EmDash)),
                 variant |-> "body"] >>],
            [type |-> "Column",
             children |-> <<
                [type |-> "Text", content |-> JStr("Last Updated"),
                 variant |-> "small"],
                [type |-> "Text",
                 content |-> Get(user, "updated_at", JStr(EmDash)),
                 variant |-> "body"] >>] >>] >>]

\* the Danger Zone card of the user edit page
DangerZoneCard(user) ==
    [type |-> "Card", title |-> "Danger Zone", className |-> "mt-6",
     children |-> <<
        [type |-> "Alert", variant |-> "warning",
         message |-> "Deleting a user is permanent and cannot be undone."],
        [type |-> "Button", label |-> "Delete User", variant |-> "danger",
         className |-> "mt-4",
         onClick |->
            [type |-> "api", method |-> "DELETE",
             endpoint |-> "/api/users/" \o PyStr(Get(user, "email", JStr(""))),
             confirm |-> "Are you sure you want to delete "
                         \o PyStr(Get(user, "email", JStr("this user")))
                         \o "?",
             onSuccess |-> [type |-> "navigate", to |-> "/admin/users"]]] >>]

\* user is a dict: on anything else user.get raises AttributeError
get_user_edit_spec(user) ==
    [type |-> "Page",
     title |-> "Edit User",
     description |-> Get(user, "email", JStr("")),
     actions |-> <<
        [type |-> "Button", label |-> "Back to Users", variant |-> "outline",
         onClick |-> [type |-> "navigate", to |-> "/admin/users"]] >>,
     children |-> <<
        [type |-> "Card", title |-> "User Details",
         children |-> << UserEditForm(user) >>],
        MetadataCard(user),
        DangerZoneCard(user) >>]

----------------------------------------------------------------------------
(* The upstream user-directory service: what one call can come back with *)

Emails == {"a@b.com", "c@d.org"}
Timestamp == "2024-01-01T00:00:00"

UserKeys == {"email", "email_verified", "two_factor_enabled",
             "created_at", "updated_at"}

FieldValues(k) ==
    CASE k = "email" -> {JStr(e) : e \in Emails}
      [] k \in {"email_verified", "two_factor_enabled"} ->
            {JBool(TRUE), JBool(FALSE), JNull}
      [] OTHER -> {JStr(Timestamp), JNull}

AllFieldValues == UNION {FieldValues(k) : k \in UserKeys}

\* user records: every key may be absent, flags and timestamps may be null
UserDicts ==
    UNION {{f \in [K -> AllFieldValues] : \A k \in K : f[k] \in FieldValues(k)} :
           K \in SUBSET UserKeys}

\* the records the user list is made of: one verified, with the two-factor
\* key absent, and one unverified with two-factor on
ListUsers ==
    {JDict([email |-> JStr("a@b.com"), email_verified |-> JBool(TRUE)]),
     JDict([email |-> JStr("c@d.org"), email_verified |-> JBool(FALSE),
            two_factor_enabled |-> JBool(TRUE)])}

UserLists == UNION {[1..n -> ListUsers] : n \in 0..MaxUsers}

ErrorDetail == JStr("Email already registered")

Bodies ==
    {Undecodable, JNull, JList(<<JNull>>), JDict([detail |-> ErrorDetail])}
    \cup {JDict(d) : d \in UserDicts}
    \cup {JList(l) : l \in UserLists}

Statuses == {200, 201, 204, 400, 404, 500}

\* httpx.ConnectError and httpx.ReadTimeout are subclasses of httpx.HTTPError
TransportErrors == {"ConnectError", "ReadTimeout"}

Outcomes ==
    [kind : {"response"}, status : Statuses, body : Bodies]
    \cup [kind : {"raised"}, exc : TransportErrors]

----------------------------------------------------------------------------
(* What a handler answers *)

Ok(body) == [status |-> 200, body |-> body]
HTTPException(status_code, detail) == [status |-> status_code, detail |-> detail]
\* an exception no except clause catches: the framework answers 500
Unhandled(exc) == [status |-> 500, unhandled |-> exc]

\* raise HTTPException(status_code=502, detail=f"Auth service error: {e}")
BadGateway(exc) == HTTPException(502, JStr("Auth service error: " \o exc))

\* response.json() raises on a body that is not JSON
JsonRaises(response) == response.body.j = "undecodable"

----------------------------------------------------------------------------
(* app/main.py: the handlers, as functions of the upstream call's outcome *)

EmptyList == JList(<<>>)

\* users = response.json() if response.status_code == 200 else [],
\* with except Exception: users = []
UsersOrEmpty(outcome) ==
    IF outcome.kind = "raised" THEN EmptyList
    ELSE IF outcome.status = 200
         THEN IF JsonRaises(outcome) THEN EmptyList ELSE outcome.body
         ELSE EmptyList

\* len(users) raises TypeError
LenRaises(users) == users.j \in {"null", "bool"}

\* len(users)
PyLen(users) ==
    CASE users.j = "list" -> Len(users.items)
      [] users.j = "dict" -> Cardinality(DOMAIN users.d)
      [] users.j = "str" -> Len(users.s)
      [] OTHER -> 0

\* iterating users yields an element without .get: u.get raises AttributeError
\* (the elements of a dict are its keys, of a str its characters)
ElementWithoutGet(users) ==
    CASE users.j = "list" -> \E i \in DOMAIN users.items : ~HasGet(users.items[i])
      [] users.j = "dict" -> DOMAIN users.d # {}
      [] users.j = "str" -> users.s # ""
      [] OTHER -> FALSE

\* sum(1 for u in users if u.get(key)), when every element has .get
CountTruthy(users, key) ==
    IF users.j = "list"
    THEN Cardinality({i \in DOMAIN users.items :
                        Truthy(Get(users.items[i], key, JNull))})
    ELSE 0

\* sum(1 for u in users if not u.get(key))
CountFalsy(users, key) ==
    IF users.j = "list"
    THEN Cardinality({i \in DOMAIN users.items :
                        ~Truthy(Get(users.items[i], key, JNull))})
    ELSE 0

\* users, without the slice
RecentUsersUncut(users) ==
    IF users.j = "list" THEN users.items ELSE <<>>

\* users[:5] if users else []
RecentUsers(users) ==
    IF users.j = "list" /\ users.items # <<>>
    THEN SubSeq(users.items, 1, IF Len(users.items) < 5 THEN Len(users.items) ELSE 5)
    ELSE <<>>

\* GET /ui/dashboard
ui_dashboard(outcome) ==
    LET users == UsersOrEmpty(outcome)
    IN  IF LenRaises(users) THEN Unhandled("TypeError")
        ELSE IF ElementWithoutGet(users) THEN Unhandled("AttributeError")
        ELSE Ok(get_dashboard_spec(PyLen(users),
                                   CountTruthy(users, "email_verified"),
                                   RecentUsers(users)))

\* GET /ui/users
ui_users == Ok(get_users_list_spec)

\* GET /ui/users/{user_id}
ui_user_edit(outcome) ==
    IF outcome.kind = "raised" THEN BadGateway(outcome.exc)
    ELSE IF outcome.status # 200 THEN HTTPException(404, JStr("User not found"))
    ELSE IF JsonRaises(outcome) THEN Unhandled("JSONDecodeError")
    ELSE IF ~HasGet(outcome.body) THEN Unhandled("AttributeError")
    ELSE Ok(get_user_edit_spec(outcome.body))

\* GET /api/users
api_users_propagating(outcome) ==
    IF outcome.kind = "raised" THEN Ok(EmptyList)
    ELSE IF outcome.status # 200
         THEN HTTPException(outcome.status, JStr("Auth service error"))
    ELSE IF JsonRaises(outcome) THEN Ok(EmptyList)
    ELSE Ok(outcome.body)
api_users(outcome) ==
    IF outcome.kind = "raised" THEN Ok(EmptyList)
    ELSE IF outcome.status # 200 THEN Ok(EmptyList)
    ELSE IF JsonRaises(outcome) THEN Ok(EmptyList)
    ELSE Ok(outcome.body)

\* the shared shape of the three mutation handlers: on a status outside
\* success, response.json().get("detail", generic) and HTTPException
ErrorFromUpstream(outcome, generic) ==
    IF JsonRaises(outcome) THEN Unhandled("JSONDecodeError")
    ELSE IF ~HasGet(outcome.body) THEN Unhandled("AttributeError")
    ELSE HTTPException(outcome.status, Get(outcome.body, "detail", JStr(generic)))

\* return response.json()
ForwardBody(outcome) ==
    IF JsonRaises(outcome) THEN Unhandled("JSONDecodeError")
    ELSE Ok(outcome.body)

\* POST /api/users
api_create_user_only_200(outcome) ==
    IF outcome.kind = "raised" THEN BadGateway(outcome.exc)
    ELSE IF outcome.status # 200
         THEN ErrorFromUpstream(outcome, "Create failed")
    ELSE ForwardBody(outcome)
api_create_user(outcome) ==
    IF outcome.kind = "raised" THEN BadGateway(outcome.exc)
    ELSE IF outcome.status \notin {200, 201}
         THEN ErrorFromUpstream(outcome, "Create failed")
    ELSE ForwardBody(outcome)

\* GET /api/users/{email}
api_user_catching_all(outcome) ==
    IF outcome.kind = "raised" THEN BadGateway(outcome.exc)
    ELSE IF outcome.status # 200 THEN BadGateway("404: User not found")
    ELSE ForwardBody(outcome)
api_user(outcome) ==
    IF outcome.kind = "raised" THEN BadGateway(outcome.exc)
    ELSE IF outcome.status # 200 THEN HTTPException(404, JStr("User not found"))
    ELSE ForwardBody(outcome)

\* PUT /api/users/{email}
api_update_user(outcome) ==
    IF outcome.kind = "raised" THEN BadGateway(outcome.exc)
    ELSE IF outcome.status # 200
         THEN ErrorFromUpstream(outcome, "Update failed")
    ELSE ForwardBody(outcome)

\* DELETE /api/users/{email}
api_delete_user_only_200(outcome) ==
    IF outcome.kind = "raised" THEN BadGateway(outcome.exc)
    ELSE IF outcome.status # 200
         THEN ErrorFromUpstream(outcome, "Delete failed")
    ELSE Ok(JDict([status |-> JStr("deleted")]))
api_delete_user(outcome) ==
    IF outcome.kind = "raised" THEN BadGateway(outcome.exc)
    ELSE IF outcome.status \notin {200, 204}
         THEN ErrorFromUpstream(outcome, "Delete failed")
    ELSE Ok(JDict([status |-> JStr("deleted")]))

\* GET /api/stats
api_stats(outcome) ==
    LET users == UsersOrEmpty(outcome)
    IN  IF LenRaises(users) THEN Unhandled("TypeError")
        ELSE IF ElementWithoutGet(users) THEN Unhandled("AttributeError")
        ELSE Ok(JDict([total_users |-> PyLen(users),
                       verified_users |-> CountTruthy(users, "email_verified"),
                       unverified_users |-> CountFalsy(users, "email_verified"),
                       two_factor_enabled |->
                            CountTruthy(users, "two_factor_enabled")]))

\* the routes the decorators of app/main.py register
Routes ==
    {[method |-> "GET", path |-> "/health", op |-> "health"],
     [method |-> "GET", path |-> "/manifest", op |-> "manifest"],
     [method |-> "GET", path |-> "/ui/dashboard", op |-> "ui_dashboard"],
     [method |-> "GET", path |-> "/ui/users", op |-> "ui_users"],
     [method |-> "GET", path |-> "/ui/users/{user_id}", op |-> "ui_user_edit"],
     [method |-> "GET", path |-> "/api/users", op |-> "api_users"],
     [method |-> "POST", path |-> "/api/users", op |-> "api_create_user"],
     [method |-> "GET", path |-> "/api/users/{email}", op |-> "api_user"],
     [method |-> "PUT", path |-> "/api/users/{email}", op |-> "api_update_user"],
     [method |-> "DELETE", path |-> "/api/users/{email}",
      op |-> "api_delete_user"],
     [method |-> "GET", path |-> "/api/stats", op |-> "api_stats"]}

\* GET /health
health ==
    Ok(JDict([status |-> JStr("ok"), component |-> JStr("admin-dashboard"),
              version |-> JStr("1.0.0")]))

\* GET /manifest
manifest ==
    Ok(JDict([name |-> "admin-dashboard",
              version |-> "1.0.0",
              description |-> "Admin dashboard for user management",
              nav |-> <<[path |-> "/admin", label |-> "Dashboard",
                         icon |-> "dashboard"],
                        [path |-> "/admin/users", label |-> "Users",
                         icon |-> "users"]>>,
              routes |-> <<[path |-> "/", ui |-> "/ui/dashboard"],
                           [path |-> "/users", ui |-> "/ui/users"],
                           [path |-> "/users/:email", ui |-> "/ui/users/:email"]>>,
              dependencies |-> [modules |-> <<"auth">>]]))

----------------------------------------------------------------------------
(* One request at a time: idle -> awaiting (the single upstream call is out)
   -> resolved (the call came back) -> responded.  The handlers that call no
   upstream, and direct calls of a builder, go from idle to responded. *)

NoRequest == [op |-> "none"]
NoCall == [method |-> "none"]
NoOutcome == [kind |-> "none"]
NoResponse == [status |-> 0]

\* request bodies of POST and PUT
Payloads ==
    {JDict([email |-> JStr("a@b.com"), password |-> JStr("pw"),
            email_verified |-> JBool(TRUE)]),
     JDict([email_verified |-> JBool(FALSE)])}

\* AUTH_URL = os.environ.get("HIT_AUTH_URL", "http://localhost:8001")
AUTH_URL == "http://localhost:8001"

\* what get_auth_client reads when it builds a client
Settings == [base_url |-> AUTH_URL, timeout |-> 10]

Slots == 1..NSlots

\* a task of the event loop with no request
IdleSlot ==
    [pc |-> "idle", req |-> NoRequest, call |-> NoCall, up |-> NoOutcome,
     resp |-> NoResponse]

Init ==
    /\ pc = "idle"
    /\ req = NoRequest
    /\ call = NoCall
    /\ up = NoOutcome
    /\ resp = NoResponse
    /\ calls = 0
    /\ slots = [i \in Slots |-> IdleSlot]
    /\ config = Settings

\* a handler that answers without an upstream call
Answer(request, response) ==
    /\ pc = "idle"
    /\ req' = request
    /\ resp' = response
    /\ pc' = "responded"
    /\ UNCHANGED <<call, up, calls, slots, config>>

\* async with await get_auth_client() as client: await client.<method>(path)
Send(request, method, path) ==
    /\ pc = "idle"
    /\ req' = request
    /\ call' = [method |-> method, path |-> path]
    /\ calls' = calls + 1
    /\ pc' = "awaiting"
    /\ UNCHANGED <<up, resp, slots, config>>

\* a handler that sends its call once more when the call raised
ReturnRetrying(op, response) ==
    /\ pc = "resolved"
    /\ req.op = op
    /\ IF up.kind = "raised" /\ calls < 2
       THEN /\ calls' = calls + 1
            /\ pc' = "awaiting"
            /\ UNCHANGED <<req, call, up, resp, slots, config>>
       ELSE /\ resp' = response
            /\ pc' = "responded"
            /\ UNCHANGED <<req, call, up, calls, slots, config>>

\* a handler that never comes back from a call that raised
ReturnUnlessRaised(op, response) ==
    /\ pc = "resolved"
    /\ req.op = op
    /\ up.kind # "raised"
    /\ resp' = response
    /\ pc' = "responded"
    /\ UNCHANGED <<req, call, up, calls, slots, config>>

\* the rest of a handler, once its call has come back
Return(op, response) ==
    /\ pc = "resolved"
    /\ req.op = op
    /\ resp' = response
    /\ pc' = "responded"
    /\ UNCHANGED <<req, call, up, calls, slots, config>>

\* the upstream answers, or the call raises
UpstreamReply ==
    /\ pc = "awaiting"
    /\ \E outcome \in Outcomes : up' = outcome
    /\ pc' = "resolved"
    /\ UNCHANGED <<req, call, resp, calls, slots, config>>

Health == Answer([op |-> "health"], health)

Manifest == Answer([op |-> "manifest"], manifest)

UiUsers == Answer([op |-> "ui_users"], ui_users)

UiDashboardCall == Send([op |-> "ui_dashboard"], "GET", "/users")
UiDashboardReturn == Return("ui_dashboard", ui_dashboard(up))

UiUserEditCall ==
    \E user_id \in Emails :
        Send([op |-> "ui_user_edit", user_id |-> user_id],
             "GET", "/users/" \o user_id)
UiUserEditReturn == Return("ui_user_edit", ui_user_edit(up))

ApiUsersCall == Send([op |-> "api_users"], "GET", "/users")
ApiUsersReturn == Return("api_users", api_users(up))

ApiCreateUserCall ==
    \E data \in Payloads :
        Send([op |-> "api_create_user", data |-> data], "POST", "/users")
ApiCreateUserReturn == Return("api_create_user", api_create_user(up))

ApiUserCall ==
    \E email \in Emails :
        Send([op |-> "api_user", email |-> email], "GET", "/users/" \o email)
ApiUserReturn == Return("api_user", api_user(up))

ApiUpdateUserCall ==
    \E email \in Emails, data \in Payloads :
        Send([op |-> "api_update_user", email |-> email, data |-> data],
             "PUT", "/users/" \o email)
ApiUpdateUserReturn == Return("api_update_user", api_update_user(up))

ApiDeleteUserCall ==
    \E email \in Emails :
        Send([op |-> "api_delete_user", email |-> email],
             "DELETE", "/users/" \o email)
ApiDeleteUserReturn == Return("api_delete_user", api_delete_user(up))

ApiStatsCall == Send([op |-> "api_stats"], "GET", "/users")
ApiStatsReturn == Return("api_stats", api_stats(up))

\* a direct call of get_dashboard_spec, as the unit tests make it
BuildDashboard ==
    /\ pc = "idle"
    /\ \E total_users \in 0..MaxTotal, verified_users \in 0..MaxTotal,
          recent_users \in {<<>>, <<JDict([email |-> JStr("a@b.com")])>>} :
            Answer([op |-> "get_dashboard_spec", total_users |-> total_users,
                    verified_users |-> verified_users,
                    recent_users |-> recent_users],
                   [returned |-> get_dashboard_spec(total_users, verified_users,
                                                    recent_users)])

\* the next request starts from nothing: no state outlives a request
NextRequest ==
    /\ pc = "responded"
    /\ pc' = "idle"
    /\ req' = NoRequest
    /\ call' = NoCall
    /\ up' = NoOutcome
    /\ resp' = NoResponse
    /\ calls' = 0
    /\ UNCHANGED <<slots, config>>

Next ==
    \/ Health
    \/ Manifest
    \/ UiUsers
    \/ UiDashboardCall
    \/ UiDashboardReturn
    \/ UiUserEditCall
    \/ UiUserEditReturn
    \/ ApiUsersCall
    \/ ApiUsersReturn
    \/ ApiCreateUserCall
    \/ ApiCreateUserReturn
    \/ ApiUserCall
    \/ ApiUserReturn
    \/ ApiUpdateUserCall
    \/ ApiUpdateUserReturn
    \/ ApiDeleteUserCall
    \/ ApiDeleteUserReturn
    \/ ApiStatsCall
    \/ ApiStatsReturn
    \/ BuildDashboard
    \/ UpstreamReply
    \/ NextRequest

Spec == Init /\ [][Next]_vars

\* the rest of whichever handler is waiting for its call
Resume ==
    \/ UiDashboardReturn
    \/ UiUserEditReturn
    \/ ApiUsersReturn
    \/ ApiCreateUserReturn
    \/ ApiUserReturn
    \/ ApiUpdateUserReturn
    \/ ApiDeleteUserReturn
    \/ ApiStatsReturn

\* The client is built with timeout=10.0, so a call that is awaited ends, in
\* a response or in an exception; the event loop then resumes the handler,
\* which has no loop and no further await on the upstream.
LiveSpec == Spec /\ WF_vars(UpstreamReply) /\ WF_vars(Resume)

----------------------------------------------------------------------------
(* Requests handled concurrently: one asyncio task per request, each with  *)
(* its own locals and its own client; AUTH_URL is the only module-level    *)
(* value a handler reads.                                                  *)

\* the requests the tasks are given
ConcRequests ==
    {[op |-> "health"], [op |-> "manifest"], [op |-> "ui_users"],
     [op |-> "ui_dashboard"], [op |-> "api_users"], [op |-> "api_stats"],
     [op |-> "api_create_user", data |-> JDict([email_verified |-> JBool(FALSE)])]}
    \cup {[op |-> "ui_user_edit", user_id |-> e] : e \in Emails}
    \cup {[op |-> "api_user", email |-> e] : e \in Emails}
    \cup {[op |-> "api_update_user", email |-> e,
           data |-> JDict([email_verified |-> JBool(FALSE)])] : e \in Emails}
    \cup {[op |-> "api_delete_user", email |-> e] : e \in Emails}

\* the outcomes of a call of a concurrent request: the upstream answers
\* GET /users with a list and every other call with one record, or it
\* answers 404, or the call times out
ConcOutcomes(c) ==
    {[kind |-> "response", status |-> 200,
      body |-> IF c.method = "GET" /\ c.path = "/users"
               THEN JList(<<JDict([email |-> JStr("c@d.org"),
                                   email_verified |-> JBool(FALSE),
                                   two_factor_enabled |-> JBool(TRUE)])>>)
               ELSE JDict([email |-> JStr("a@b.com"),
                           email_verified |-> JBool(TRUE)])],
     [kind |-> "response", status |-> 404,
      body |-> JDict([detail |-> ErrorDetail])],
     [kind |-> "raised", exc |-> "ReadTimeout"]}

\* the handlers that return without building a client
AnswersAtOnce(request) == request.op \in {"health", "manifest", "ui_users"}

\* the method and path of the one call a handler makes for its request
Upstream(request) ==
    CASE request.op \in {"ui_dashboard", "api_users", "api_stats"}
            -> [method |-> "GET", path |-> "/users"]
      [] request.op = "ui_user_edit"
            -> [method |-> "GET", path |-> "/users/" \o request.user_id]
      [] request.op = "api_create_user"
            -> [method |-> "POST", path |-> "/users"]
      [] request.op = "api_user"
            -> [method |-> "GET", path |-> "/users/" \o request.email]
      [] request.op = "api_update_user"
            -> [method |-> "PUT", path |-> "/users/" \o request.email]
      [] request.op = "api_delete_user"
            -> [method |-> "DELETE", path |-> "/users/" \o request.email]

\* the call as the client built by get_auth_client sends it
ClientCall(settings, request) ==
    [base_url |-> settings.base_url, timeout |-> settings.timeout,
     method |-> Upstream(request).method, path |-> Upstream(request).path]

\* what the handler of a request answers, given the outcome of its call
Handle(request, outcome) ==
    CASE request.op = "health" -> health
      [] request.op = "manifest" -> manifest
      [] request.op = "ui_users" -> ui_users
      [] request.op = "ui_dashboard" -> ui_dashboard(outcome)
      [] request.op = "ui_user_edit" -> ui_user_edit(outcome)
      [] request.op = "api_users" -> api_users(outcome)
      [] request.op = "api_create_user" -> api_create_user(outcome)
      [] request.op = "api_user" -> api_user(outcome)
      [] request.op = "api_update_user" -> api_update_user(outcome)
      [] request.op = "api_delete_user" -> api_delete_user(outcome)
      [] request.op = "api_stats" -> api_stats(outcome)

\* the variables of the one-request-at-a-time machine
single == <<pc, req, call, up, resp, calls>>

\* a task is given a request: it answers at once, or builds its client from
\* the settings and awaits its call
ConcAccept(i) ==
    /\ slots[i].pc = "idle"
    /\ \E request \in ConcRequests :
        slots' = [slots EXCEPT ![i] =
                    IF AnswersAtOnce(request)
                    THEN [pc |-> "responded", req |-> request, call |-> NoCall,
                          up |-> NoOutcome,
                          resp |-> Handle(request, NoOutcome)]
                    ELSE [pc |-> "awaiting", req |-> request,
                          call |-> ClientCall(config, request),
                          up |-> NoOutcome, resp |-> NoResponse]]
    /\ UNCHANGED <<config, single>>

\* the call of a task comes back
ConcReply(i) ==
    /\ slots[i].pc = "awaiting"
    /\ \E outcome \in ConcOutcomes(slots[i].call) :
        slots' = [slots EXCEPT ![i].up = outcome, ![i].pc = "resolved"]
    /\ UNCHANGED <<config, single>>

\* a handler that works on the outcome some task received last
ConcReturnShared(i) ==
    /\ slots[i].pc = "resolved"
    /\ \E j \in Slots :
        /\ slots[j].up # NoOutcome
        /\ slots' = [slots EXCEPT ![i].resp = Handle(slots[i].req, slots[j].up),
                                  ![i].pc = "responded"]
    /\ UNCHANGED <<config, single>>

\* the rest of the task's handler, on its own locals
ConcReturn(i) ==
    /\ slots[i].pc = "resolved"
    /\ slots' = [slots EXCEPT ![i].resp = Handle(slots[i].req, slots[i].up),
                              ![i].pc = "responded"]
    /\ UNCHANGED <<config, single>>

\* the response is sent and the task ends; nothing of it is kept
ConcFinish(i) ==
    /\ slots[i].pc = "responded"
    /\ slots' = [slots EXCEPT ![i] = IdleSlot]
    /\ UNCHANGED <<config, single>>

Accept == \E i \in Slots : ConcAccept(i)
Reply == \E i \in Slots : ConcReply(i)
Finish == \E i \in Slots : ConcFinish(i)
ReturnOwn == \E i \in Slots : ConcReturn(i)

ConcNext ==
    \/ Accept
    \/ Reply
    \/ ReturnOwn
    \/ Finish

ConcSpec == Init /\ [][ConcNext]_vars

----------------------------------------------------------------------------
(* Reading a document, and the state a claim speaks of *)

\* the request op has been answered
Responded(op) == pc = "responded" /\ req.op = op

\* the upstream answered with a status, rather than the call raising
Answered == up.kind = "response"

\* the first element of seq that has field f with value v
WithField(seq, f, v) ==
    seq[CHOOSE i \in DOMAIN seq : f \in DOMAIN seq[i] /\ seq[i][f] = v]

HasWithField(seq, f, v) ==
    \E i \in DOMAIN seq : f \in DOMAIN seq[i] /\ seq[i][f] = v

\* the StatsGrid of a dashboard page and its item with a label
GridOf(doc) == WithField(doc.children, "type", "StatsGrid")
ItemOf(doc, label) == WithField(GridOf(doc).items, "label", label)

Abs(n) == IF n < 0 THEN -n ELSE n

----------------------------------------------------------------------------
(* C1 *)

\* C1: for total_users >= 0 and 0 <= verified_users <= total_users a direct
\* call of get_dashboard_spec returns a document whose StatsGrid has exactly
\* 4 items, whose Unverified item has value total_users - verified_users and
\* whose Verified item has change 0 when total_users = 0 and otherwise the
\* integer nearest to verified_users/total_users*100 (what round() gives).
C1_StatsGrid ==
    (Responded("get_dashboard_spec") /\ req.verified_users <= req.total_users)
    => LET doc == resp.returned
           t == req.total_users
           v == req.verified_users
           c == ItemOf(doc, "Verified").change
       IN  /\ HasWithField(doc.children, "type", "StatsGrid")
           /\ Len(GridOf(doc).items) = 4
           /\ ItemOf(doc, "Unverified").value = t - v
           /\ ItemOf(doc, "Verified").value = v
           /\ ItemOf(doc, "Total Users").value = t
           /\ t = 0 => c = 0
           /\ t > 0 => /\ 2 * Abs(100 * v - c * t) <= t
                       /\ c \in 0..100

\* the documented example: 10 users of which 7 verified give 3 and 70
C1_Witness ==
    /\ Responded("get_dashboard_spec")
    /\ req.total_users = 10
    /\ req.verified_users = 7
    /\ ItemOf(resp.returned, "Unverified").value = 3
    /\ ItemOf(resp.returned, "Verified").change = 70

----------------------------------------------------------------------------
(* C2 *)

\* the registered node types and action variants of the Node Schema
NodeTypes ==
    {"Page", "Card", "Form", "DataTable", "Button", "StatsGrid", "Modal",
     "TextField", "Checkbox", "Alert", "Text", "Row", "Column", "Link"}
ActionTypes == {"navigate", "openModal", "api", "refresh"}

\* the fields of a node that hold nodes, and those that hold an Action
NodeListFields == {"children", "actions", "footer", "rowActions", "fields"}
ActionFields == {"onClick", "onSuccess"}

RECURSIVE WellFormedNode(_)
RECURSIVE WellFormedAction(_)

WellFormedAction(a) ==
    /\ "type" \in DOMAIN a
    /\ a.type \in ActionTypes
    /\ "modal" \in DOMAIN a => WellFormedNode(a.modal)
    /\ "onSuccess" \in DOMAIN a => WellFormedAction(a.onSuccess)

WellFormedNode(n) ==
    /\ "type" \in DOMAIN n
    /\ n.type \in NodeTypes
    /\ \A f \in NodeListFields \cap DOMAIN n :
            \A i \in DOMAIN n[f] : WellFormedNode(n[f][i])
    /\ \A f \in ActionFields \cap DOMAIN n : WellFormedAction(n[f])
    /\ "items" \in DOMAIN n =>
            \A i \in DOMAIN n.items :
                "onClick" \in DOMAIN n.items[i] =>
                    WellFormedAction(n.items[i].onClick)
    /\ n.type = "Form" =>
            /\ "fields" \in DOMAIN n
            /\ \A i \in DOMAIN n.fields :
                    /\ "name" \in DOMAIN n.fields[i]
                    /\ n.fields[i].name # ""

\* the operations that answer with a document, and the document answered
PageOps == {"ui_dashboard", "ui_users", "ui_user_edit"}
HasDocument ==
    \/ Responded("get_dashboard_spec")
    \/ pc = "responded" /\ req.op \in PageOps /\ resp.status = 200
Document == IF req.op = "get_dashboard_spec" THEN resp.returned ELSE resp.body

\* C2: every document a builder returns (get_dashboard_spec for any counts,
\* get_users_list_spec, get_user_edit_spec for any user record) is well
\* formed all the way down: every node has a registered type, every onClick
\* and onSuccess is one of the four registered actions, and every field of
\* every Form has a non-empty name.
C2_WellFormed == HasDocument => WellFormedNode(Document)

\* an edit page built from a record with nothing but nulls and an email
C2_Witness ==
    /\ Responded("ui_user_edit")
    /\ resp.status = 200
    /\ up.body.d = [email |-> JStr("a@b.com"), email_verified |-> JNull,
                    created_at |-> JNull]
    /\ WellFormedNode(resp.body)

----------------------------------------------------------------------------
(* C3 *)

LookupOps == {"ui_user_edit", "api_user"}

\* C3: GET /ui/users/{id} and GET /api/users/{id} answer 404 whenever the
\* upstream answers with a status other than 200, 502 whenever the upstream
\* call raises a transport error, and 200 only when the upstream answered 200.
C3_Lookup ==
    (pc = "responded" /\ req.op \in LookupOps)
    => /\ (Answered /\ up.status # 200) => resp.status = 404
       /\ up.kind = "raised" => resp.status = 502
       /\ resp.status = 200 => (Answered /\ up.status = 200)

\* the edit page asked for, the upstream answering 500 with a user record
C3_Witness ==
    /\ Responded("ui_user_edit")
    /\ Answered
    /\ up.status = 500
    /\ up.body = JDict([email |-> JStr("a@b.com")])
    /\ resp = HTTPException(404, JStr("User not found"))

----------------------------------------------------------------------------
(* C4 *)

----------------------------------------------------------------------------
(* C5 *)

MutationOps == {"api_create_user", "api_update_user", "api_delete_user"}

SuccessStatuses(op) ==
    CASE op = "api_create_user" -> {200, 201}
      [] op = "api_update_user" -> {200}
      [] op = "api_delete_user" -> {200, 204}

GenericMessage(op) ==
    CASE op = "api_create_user" -> "Create failed"
      [] op = "api_update_user" -> "Update failed"
      [] op = "api_delete_user" -> "Delete failed"

\* the upstream's body carries a detail message
GaveDetail(body) == body.j = "dict" /\ "detail" \in DOMAIN body.d

\* C5: POST, PUT and DELETE /api/users answer an upstream status s outside
\* success with an error of status s that carries the upstream's detail if it
\* gave one and the generic message otherwise; they answer 502 when the call
\* raises a transport error; no upstream failure is answered with 200.
C5_MutationErrors ==
    (pc = "responded" /\ req.op \in MutationOps)
    => /\ (Answered /\ up.status \notin SuccessStatuses(req.op))
            => /\ resp.status = up.status
               /\ "detail" \in DOMAIN resp
               /\ resp.detail = IF GaveDetail(up.body) THEN up.body.d.detail
                                ELSE JStr(GenericMessage(req.op))
       /\ up.kind = "raised" => resp.status = 502
       /\ (up.kind = "raised" \/ up.status \notin SuccessStatuses(req.op))
            => resp.status # 200

----------------------------------------------------------------------------
(* C6 *)

\* the upstream delivered a list of records
UsableList ==
    /\ Answered
    /\ up.status = 200
    /\ up.body.j = "list"
    /\ \A i \in DOMAIN up.body.items : up.body.items[i].j = "dict"

\* C6: GET /ui/dashboard answers 200 with a Page document whatever the
\* upstream call came back with, and with get_dashboard_spec(0, 0, [])
\* whenever the upstream did not deliver a list of records.
C6_DashboardNeverFails ==
    Responded("ui_dashboard")
    => /\ resp.status = 200
       /\ "body" \in DOMAIN resp
       /\ resp.body.type = "Page"
       /\ ~UsableList => resp.body = get_dashboard_spec(0, 0, <<>>)

----------------------------------------------------------------------------
(* C7 *)

\* C7: DELETE /api/users/{id} answers 200 with {"status": "deleted"} whenever
\* the upstream answers 200 or 204, whatever the upstream's body.
C7_Delete ==
    (Responded("api_delete_user") /\ Answered /\ up.status \in {200, 204})
    => resp = Ok(JDict([status |-> JStr("deleted")]))

\* the upstream answers 204 with a body that is not JSON
C7_Witness ==
    /\ Responded("api_delete_user")
    /\ Answered
    /\ up.status = 204
    /\ up.body.j = "undecodable"
    /\ resp.status = 200
    /\ resp.body.d.status = JStr("deleted")

----------------------------------------------------------------------------
(* C8 *)

\* an edit page was answered for a record whose email is a string
EditPageBuilt ==
    /\ Responded("ui_user_edit")
    /\ resp.status = 200
    /\ "email" \in DOMAIN up.body.d
    /\ up.body.d.email.j = "str"

CardOf(doc, title) == WithField(doc.children, "title", title)
EditFormOf(doc) == WithField(CardOf(doc, "User Details").children, "type", "Form")
\* the Text under the small heading of the Metadata card's n-th column
MetadataText(doc, n) ==
    CardOf(doc, "Metadata").children[1].children[n].children[2]
DeleteButtonOf(doc) ==
    WithField(CardOf(doc, "Danger Zone").children, "label", "Delete User")

\* C8: for a user record with email e the edit page has initialValues
\* email_verified and two_factor_enabled equal to the record's values, or
\* false where the key is absent; Metadata texts equal to the record's
\* created_at and updated_at, or the em dash where the key is absent; and a
\* Delete User button whose action is an api DELETE on "/api/users/" + e with
\* a confirm text containing e.
C8_EditPage ==
    EditPageBuilt
    => LET user == up.body.d
           e == user.email.s
           doc == resp.body
           form == EditFormOf(doc)
           delete == DeleteButtonOf(doc).onClick
       IN  /\ \A k \in {"email_verified", "two_factor_enabled"} :
                form.initialValues[k] =
                    IF k \in DOMAIN user THEN user[k] ELSE JBool(FALSE)
           /\ MetadataText(doc, 1).content =
                IF "created_at" \in DOMAIN user THEN user.created_at
                ELSE JStr(EmDash)
           /\ MetadataText(doc, 2).content =
                IF "updated_at" \in DOMAIN user THEN user.updated_at
                ELSE JStr(EmDash)
           /\ MetadataText(doc, 1).type = "Text"
           /\ MetadataText(doc, 2).type = "Text"
           /\ delete.type = "api"
           /\ delete.method = "DELETE"
           /\ delete.endpoint = "/api/users/" \o e
           /\ Contains(delete.confirm, e)

\* the documented example: a record with nothing but its email
C8_Witness ==
    /\ EditPageBuilt
    /\ up.body.d = [email |-> JStr("a@b.com")]
    /\ EditFormOf(resp.body).initialValues.email_verified = JBool(FALSE)
    /\ EditFormOf(resp.body).initialValues.two_factor_enabled = JBool(FALSE)
    /\ MetadataText(resp.body, 1).content = JStr(EmDash)
    /\ MetadataText(resp.body, 2).content = JStr(EmDash)
    /\ DeleteButtonOf(resp.body).onClick.endpoint = "/api/users/a@b.com"
    /\ DeleteButtonOf(resp.body).onClick.confirm =
            "Are you sure you want to delete a@b.com?"

----------------------------------------------------------------------------
(* C9 *)

\* C9: the edit Form's email field is read-only and the Form's initial
\* values give each of its three fields (email, email_verified,
\* two_factor_enabled) the record's value, so that the untouched form submits
\* the record's own email to the PUT endpoint keyed by that email.
C9_InitialValuesCoverFields ==
    EditPageBuilt
    => LET user == up.body.d
           form == EditFormOf(resp.body)
       IN  /\ form.method = "PUT"
           /\ form.endpoint = "/api/users/" \o user.email.s
           /\ WithField(form.fields, "name", "email").readOnly = TRUE
           /\ \A i \in DOMAIN form.fields :
                /\ form.fields[i].name \in DOMAIN form.initialValues
                /\ form.fields[i].name \in DOMAIN user
                    => form.initialValues[form.fields[i].name]
                        = user[form.fields[i].name]

----------------------------------------------------------------------------
(* C10 *)

UsersTableOf(doc) == doc.children[1].children[1]

\* the values of field f over the elements of seq
FieldSet(seq, f) == {seq[i][f] : i \in DOMAIN seq}

\* C10: the DataTable of the users list page has endpoint "/api/users",
\* pagination on with page size 20, searchable and sortable on, the five
\* column keys email, email_verified, two_factor_enabled, created_at and
\* updated_at, and exactly the row actions Edit, which navigates to the edit
\* page, and Delete, an api DELETE on "/api/users/{email}" with a confirm
\* prompt and a refresh on success.
C10_UsersTable ==
    Responded("ui_users")
    => LET table == UsersTableOf(resp.body)
           edit == WithField(table.rowActions, "label", "Edit").onClick
           delete == WithField(table.rowActions, "label", "Delete").onClick
       IN  /\ resp.status = 200
           /\ table.type = "DataTable"
           /\ table.endpoint = "/api/users"
           /\ table.pagination = TRUE
           /\ table.pageSize = 20
           /\ table.searchable = TRUE
           /\ table.sortable = TRUE
           /\ Len(table.columns) = 5
           /\ FieldSet(table.columns, "key") = UserKeys
           /\ Len(table.rowActions) = 2
           /\ FieldSet(table.rowActions, "label") = {"Edit", "Delete"}
           /\ edit = [type |-> "navigate", to |-> "/admin/users/{email}"]
           /\ delete.type = "api"
           /\ delete.method = "DELETE"
           /\ delete.endpoint = "/api/users/{email}"
           /\ "confirm" \in DOMAIN delete
           /\ delete.confirm # ""
           /\ delete.onSuccess = [type |-> "refresh"]

\* the users list page has been answered
C10_Witness ==
    /\ Responded("ui_users")
    /\ resp.status = 200
    /\ resp.body.title = "Users"
    /\ UsersTableOf(resp.body).pageSize = 20

----------------------------------------------------------------------------
(* C11 *)

StatsKeys == {"total_users", "verified_users", "unverified_users",
              "two_factor_enabled"}

\* C11: GET /api/stats answers 200 with the four counts whatever the upstream
\* call came back with; the counts are all 0 when the upstream answers with a
\* status other than 200 or the call raises; and always verified_users +
\* unverified_users = total_users and two_factor_enabled <= total_users.
C11_Stats ==
    Responded("api_stats")
    => /\ resp.status = 200
       /\ "body" \in DOMAIN resp
       /\ DOMAIN resp.body.d = StatsKeys
       /\ (up.kind = "raised" \/ up.status # 200)
            => \A k \in StatsKeys : resp.body.d[k] = 0
       /\ resp.body.d.verified_users + resp.body.d.unverified_users
            = resp.body.d.total_users
       /\ resp.body.d.two_factor_enabled <= resp.body.d.total_users

----------------------------------------------------------------------------
(* C12 *)

ForwardingOps == {"api_create_user", "api_user", "api_update_user"}

\* the upstream answered a forwarding operation with one of its success codes
UpstreamSucceeded ==
    /\ pc = "responded"
    /\ req.op \in ForwardingOps
    /\ Answered
    /\ up.status \in (IF req.op = "api_create_user" THEN {200, 201} ELSE {200})

----------------------------------------------------------------------------
(* C13 *)

\* the first place at which token stands in s, 0 when it does not
IndexOf(s, token) ==
    LET places == {i \in 1..(Len(s) - Len(token) + 1) :
                        SubSeq(s, i, i + Len(token) - 1) = token}
    IN  IF places = {} THEN 0
        ELSE CHOOSE i \in places : \A k \in places : i <= k

\* s with its first token replaced by value: what the client does with the
\* placeholder of an endpoint
Substitute(s, token, value) ==
    LET i == IndexOf(s, token)
    IN  IF i = 0 THEN s
        ELSE SubSeq(s, 1, i - 1) \o value
                \o SubSeq(s, i + Len(token), Len(s))

\* what a path gives the parameter of a pattern whose parameter, written
\* from opener on, is its last segment; "" when the path does not match
ParameterOf(pattern, opener, path) ==
    LET i == IndexOf(pattern, opener)
        rest == SubSeq(path, i, Len(path))
    IN  IF i = 0 \/ Len(path) < i THEN ""
        ELSE IF SubSeq(path, 1, i - 1) # SubSeq(pattern, 1, i - 1) THEN ""
        ELSE IF Contains(rest, "/") THEN ""
        ELSE rest

\* path is matched by pattern, its parameter being the identifier of a user
MatchesPattern(pattern, opener, path) ==
    IF IndexOf(pattern, opener) = 0 THEN pattern = path
    ELSE ParameterOf(pattern, opener, path) \in Emails

\* the pages of the manifest: its nav items and its routes under /admin
ManifestPages ==
    LET m == manifest.body.d
    IN  {m.nav[i].path : i \in DOMAIN m.nav}
        \cup {IF m.routes[i].path = "/" THEN "/admin"
              ELSE "/admin" \o m.routes[i].path : i \in DOMAIN m.routes}

RECURSIVE NodeCapabilities(_)
RECURSIVE ActionCapabilities(_)

Capability(kind, method, target) ==
    [kind |-> kind, method |-> method, target |-> target]

\* the api calls and navigations an Action declares
ActionCapabilities(a) ==
    (CASE a.type = "api" -> {Capability("api", a.method, a.endpoint)}
       [] a.type = "navigate" -> {Capability("page", "GET", a.to)}
       [] OTHER -> {})
    \cup (IF "modal" \in DOMAIN a THEN NodeCapabilities(a.modal) ELSE {})
    \cup (IF "onSuccess" \in DOMAIN a THEN ActionCapabilities(a.onSuccess)
          ELSE {})

\* the form submits, api calls, navigations and links a document declares
NodeCapabilities(n) ==
    (CASE n.type = "Form" -> {Capability("api", n.method, n.endpoint)}
       [] n.type = "Link" -> {Capability("page", "GET", n.href)}
       [] OTHER -> {})
    \cup UNION {UNION {NodeCapabilities(n[f][i]) : i \in DOMAIN n[f]} :
                f \in NodeListFields \cap DOMAIN n}
    \cup UNION {ActionCapabilities(n[f]) : f \in ActionFields \cap DOMAIN n}
    \cup (IF "items" \in DOMAIN n
          THEN UNION {IF "onClick" \in DOMAIN n.items[i]
                      THEN ActionCapabilities(n.items[i].onClick)
                      ELSE {} : i \in DOMAIN n.items}
          ELSE {})

\* the capability has a target, whichever user's email the client puts in
\* the place of the placeholder
Resolves(cap) ==
    \A e \in Emails :
        LET target == Substitute(cap.target, "{email}", e)
        IN  IF cap.kind = "api"
            THEN \E r \in Routes :
                    /\ r.method = cap.method
                    /\ MatchesPattern(r.path, "{", target)
            ELSE \E page \in ManifestPages : MatchesPattern(page, ":", target)

\* the document answered was built from counts, or from a record whose
\* email is a string
BuiltWithinContract ==
    /\ HasDocument
    /\ req.op = "ui_user_edit"
        => ("email" \in DOMAIN up.body.d /\ up.body.d.email.j = "str")

\* C13: every capability a document declares resolves: every Form and api
\* action names, once the placeholder is filled in, a method and path that a
\* route of the application serves for a user, and every navigate target and
\* Link href is a page of the manifest's nav items or of its routes under
\* /admin.
C13_CapabilitiesResolve ==
    BuiltWithinContract
    => \A cap \in NodeCapabilities(Document) : Resolves(cap)

----------------------------------------------------------------------------
(* C14 *)

\* a dashboard document has been produced
DashboardBuilt ==
    \/ Responded("get_dashboard_spec")
    \/ Responded("ui_dashboard") /\ resp.status = 200

\* C14: the "Add User" page action of the dashboard document is the same
\* Button node as the "Add User" page action of the users list document:
\* label, variant, icon and the openModal action with its Modal, its Form and
\* the three fields with all their attributes.
C14_SameAddUser ==
    DashboardBuilt => Document.actions[1] = get_users_list_spec.actions[1]

----------------------------------------------------------------------------
(* C15 *)

\* the handlers that make no upstream call
LocalOps == {"health", "manifest", "ui_users", "get_dashboard_spec"}

\* C15: no retries. In every step the request at hand has caused at most one
\* upstream call; a call that is awaited or has come back is never sent
\* again; the step after the call has come back, with a response, a
\* transport failure or a timeout, is the response; and a response comes
\* after exactly one call, or after none for GET /health, GET /manifest and
\* GET /ui/users.
C15_NoRetries ==
    [][/\ calls' <= 1
       /\ pc \in {"awaiting", "resolved"} => calls' = calls
       /\ pc = "resolved" => pc' = "responded"
       /\ pc' = "responded"
            => calls' = (IF req'.op \in LocalOps THEN 0 ELSE 1)]_vars

C15_Witness ==
    /\ Responded("api_update_user")
    /\ up.kind = "raised"
    /\ calls = 1
    /\ resp.status = 502

----------------------------------------------------------------------------
(* C16 *)

\* the handlers that answer a call that raised with 502
GatewayOps == {"api_create_user", "api_user", "api_update_user", "api_delete_user"}

\* C16: every request is eventually resolved. A request whose call is
\* awaited or has come back is eventually answered; a response, once given,
\* stays the request's response; and a call of POST, GET, PUT or DELETE
\* /api/users[/{email}] that ended in a transport failure or a timeout is
\* eventually answered with the explicit error 502.
C16_EventuallyResolved ==
    /\ (pc \in {"awaiting", "resolved"}) ~> (pc = "responded")
    /\ [][pc = "responded" => (resp' = resp \/ pc' = "idle")]_vars
    /\ (pc = "resolved" /\ req.op \in GatewayOps /\ up.kind = "raised")
        ~> (pc = "responded" /\ req.op \in GatewayOps /\ resp.status = 502)

C16_Witness ==
    /\ Responded("api_create_user")
    /\ up = [kind |-> "raised", exc |-> "ReadTimeout"]
    /\ resp = BadGateway("ReadTimeout")

----------------------------------------------------------------------------
(* C17 *)

\* C17: requests are independent under concurrency. Whatever the
\* interleaving, the call of each request is made with the settings as
\* initialized and with the method and path of that request; its response is
\* what its own handler makes of its own request and of the outcome of its
\* own call, whatever the other tasks hold; a step of one task leaves every
\* other task as it was; and the settings are never modified.
C17_Independent ==
    /\ [](\A i \in Slots :
            /\ slots[i].pc \in {"awaiting", "resolved"}
                => slots[i].call = ClientCall(Settings, slots[i].req)
            /\ slots[i].pc = "responded"
                => slots[i].resp = Handle(slots[i].req, slots[i].up))
    /\ [][/\ config' = config
          /\ \A i, j \in Slots :
                (i # j /\ slots'[i] # slots[i]) => slots'[j] = slots[j]]_vars

\* two requests in flight at once, with different outcomes
C17_Witness ==
    /\ slots[1].pc = "responded"
    /\ slots[1].req = [op |-> "api_delete_user", email |-> "c@d.org"]
    /\ slots[1].up.kind = "raised"
    /\ slots[1].resp = BadGateway("ReadTimeout")
    /\ slots[2].pc = "resolved"
    /\ slots[2].req = [op |-> "api_user", email |-> "a@b.com"]
    /\ slots[2].up.status = 200

----------------------------------------------------------------------------
(* C18 *)

\* C18: GET /ui/dashboard calls the builder within its preconditions. For
\* every upstream list of user records, of any length and with any mix of
\* verified flags, the document answered is the builder's for a total_users
\* that is the length of the list, a verified_users between 0 and
\* total_users and a recent_users of at most 5 records that is a prefix of
\* the list; and in every document the handler answers the Unverified value
\* is not negative and the Verified change lies between 0 and 100.
C18_WithinPreconditions ==
    Responded("ui_dashboard")
    => LET users == UsersOrEmpty(up)
           total_users == PyLen(users)
           verified_users == CountTruthy(users, "email_verified")
           recent_users == RecentUsers(users)
       IN  /\ UsableList
                => /\ resp = Ok(get_dashboard_spec(total_users, verified_users,
                                                   recent_users))
                   /\ total_users = Len(up.body.items)
                   /\ 0 <= verified_users /\ verified_users <= total_users
                   /\ Len(recent_users) <= 5
                   /\ Len(recent_users) <= total_users
                   /\ recent_users = SubSeq(up.body.items, 1, Len(recent_users))
           /\ resp.status = 200
                => /\ ItemOf(resp.body, "Total Users").value >= 0
                   /\ ItemOf(resp.body, "Unverified").value >= 0
                   /\ ItemOf(resp.body, "Verified").change >= 0
                   /\ ItemOf(resp.body, "Verified").change <= 100

\* a list longer than the slice, with both flags in it
C18_Witness ==
    /\ Responded("ui_dashboard")
    /\ UsableList
    /\ Len(up.body.items) = 6
    /\ Len(RecentUsers(up.body)) = 5
    /\ resp.status = 200
    /\ ItemOf(resp.body, "Verified").value = 2
    /\ ItemOf(resp.body, "Unverified").value = 4
    /\ ItemOf(resp.body, "Verified").change = 33

----------------------------------------------------------------------------
(* C19 *)

\* C19: no missing optional field leaks into the edit page. For every user
\* record in which created_at, updated_at, email_verified or
\* two_factor_enabled is absent or null, the two Metadata timestamp texts
\* have a string content (the record's timestamp or the em dash) and the two
\* initialValues are booleans (the record's flag or false).
C19_NoNullLeaks ==
    EditPageBuilt
    => LET user == up.body.d
           doc == resp.body
           form == EditFormOf(doc)
           Given(k) == k \in DOMAIN user /\ user[k].j # "null"
       IN  /\ MetadataText(doc, 1).content =
                IF Given("created_at") THEN user.created_at ELSE JStr(EmDash)
           /\ MetadataText(doc, 2).content =
                IF Given("updated_at") THEN user.updated_at ELSE JStr(EmDash)
           /\ \A k \in {"email_verified", "two_factor_enabled"} :
                form.initialValues[k] =
                    IF Given(k) THEN user[k] ELSE JBool(FALSE)
           /\ \A n \in {1, 2} : MetadataText(doc, n).content.j = "str"
           /\ \A k \in {"email_verified", "two_factor_enabled"} :
                form.initialValues[k].j = "bool"

----------------------------------------------------------------------------
(* C20 *)

\* the handler answered 200 with a body
Succeeded == resp.status = 200 /\ "body" \in DOMAIN resp

\* the handler answered with an error that carries the upstream's status
SurfacedAsError ==
    /\ resp.status = up.status
    /\ "detail" \in DOMAIN resp
    /\ "body" \notin DOMAIN resp

\* C20: PUT /api/users/{id} treats exactly the upstream status 200 as
\* success: it answers with the upstream's body if and only if the status is
\* 200, and it surfaces every other status s, 201 and 204 included, as an
\* error with status s. POST succeeds on exactly 200 and 201, and DELETE on
\* exactly 200 and 204; every other status is surfaced as an error.
C20_SuccessStatuses ==
    (pc = "responded" /\ req.op \in MutationOps /\ Answered)
    => CASE req.op = "api_update_user"
                -> /\ resp = Ok(up.body) <=> up.status = 200
                   /\ up.status # 200 => SurfacedAsError
         [] req.op = "api_create_user"
                -> /\ Succeeded <=> up.status \in {200, 201}
                   /\ up.status \notin {200, 201} => SurfacedAsError
         [] req.op = "api_delete_user"
                -> /\ Succeeded <=> up.status \in {200, 204}
                   /\ up.status \notin {200, 204} => SurfacedAsError

====
